---- MODULE Spec2Model ----
(***************************************************************************)
(* Model of the redline generator                                          *)
(*   plugins/legal-assistant/skills/redline-generate/scripts/redline.py    *)
(*                                                                         *)
(* Text is a sequence of one-character strings.  Offsets are 0-based as in *)
(* Python: offset k of a text t denotes the character t[k+1].  A paragraph *)
(* is the ordered list of the children of its w:p element; a run element   *)
(* is referred to by its 0-based position in that list (element identity). *)
(***************************************************************************)
EXTENDS Integers, Sequences, FiniteSets, TLC

VARIABLES
    layout,           \* the document's scopes: body, tables, sections (fixed per run)
    paras,            \* paragraph id -> children of its w:p element
    changes,          \* the change list returned by find_text_changes
    idx,              \* 1-based position of the for loop of generate_redlines
    pc,               \* position of generate_redlines
    revision_id,      \* the module global _revision_id
    changes_applied,  \* the local counter of generate_redlines
    outcomes,         \* what the loop reported for each processed change
    created,          \* w:del / w:ins elements in order of creation
    last_match,       \* the paragraph and MatchSpan of the last located match
    output,           \* what was written to the output path
    t_pc,             \* concurrent runs: position inside get_next_revision_id
    t_reg,            \* concurrent runs: the value on the evaluation stack
    t_ids,            \* concurrent runs: the ids each run has received
    original_md,      \* the text read from the original markdown file
    modified_md       \* the text read from the modified markdown file

vars == <<layout, paras, changes, idx, pc, revision_id, changes_applied,
          outcomes, created, last_match, output, t_pc, t_reg, t_ids,
          original_md, modified_md>>

-----------------------------------------------------------------------------
(* Bounds *)

MaxChanges == 2
MaxText == 3
MaxOldLen == 3
MaxAllocs == 2

-----------------------------------------------------------------------------
(* Characters and strings *)

Whitespace == {" ", "\t", "\n"}

IsSpace(c) == c \in Whitespace

\* re.IGNORECASE compares characters by their lower-case form
Lower(c) ==
    CASE c = "A" -> "a"
      [] c = "B" -> "b"
      [] c = "H" -> "h"
      [] c = "P" -> "p"
      [] c = "I" -> "i"
      [] c = "D" -> "d"
      [] OTHER -> c

RECURSIVE SplitAcc(_, _, _, _)
SplitAcc(text, k, cur, acc) ==
    IF k > Len(text)
    THEN IF cur = <<>> THEN acc ELSE Append(acc, cur)
    ELSE IF IsSpace(text[k])
         THEN SplitAcc(text, k + 1, <<>>, IF cur = <<>> THEN acc ELSE Append(acc, cur))
         ELSE SplitAcc(text, k + 1, Append(cur, text[k]), acc)

\* str.split(): the maximal whitespace-free pieces of the text
Split(text) == SplitAcc(text, 1, <<>>, <<>>)

RECURSIVE Concat(_)
Concat(seqs) == IF seqs = <<>> THEN <<>> ELSE Head(seqs) \o Concat(Tail(seqs))

\* Python slice text[a:b] for 0 <= a, b within the text
Slice(text, a, b) == SubSeq(text, a + 1, b)

Max(a, b) == IF a > b THEN a ELSE b
Min(a, b) == IF a < b THEN a ELSE b

\* a local variable: value is computed once and Body is evaluated with it
Bind(value, Body(_)) == CHOOSE y \in {Body(v) : v \in {value}} : TRUE

-----------------------------------------------------------------------------
(* The search pattern  r'\s*'.join(re.escape(word) ...)  and re.search *)

\* a literal token matches at offset pos, ignoring case
TokenAt(full, pos, tok) ==
    /\ pos + Len(tok) <= Len(full)
    /\ \A j \in 1..Len(tok) : Lower(full[pos + j]) = Lower(tok[j])

RECURSIVE SkipSpaces(_, _)
\* greedy \s* : the offset after all whitespace starting at pos
SkipSpaces(full, pos) ==
    IF pos < Len(full) /\ IsSpace(full[pos + 1]) THEN SkipSpaces(full, pos + 1) ELSE pos

\* a mistaken separator: \s+ , at least one whitespace character (-1: no match)
SeparatorEndPlus(full, pos) ==
    IF pos < Len(full) /\ IsSpace(full[pos + 1]) THEN SkipSpaces(full, pos) ELSE -1

\* the separator \s* between two tokens: the only offset at which the next
\* token (which starts with a non-whitespace character) can begin
SeparatorEnd(full, pos) == SkipSpaces(full, pos)

RECURSIVE MatchEnd(_, _, _, _)
\* end offset of the pattern's match of tokens[k..] starting at pos, or -1
MatchEnd(full, pos, tokens, k) ==
    IF k > Len(tokens) THEN pos
    ELSE IF ~TokenAt(full, pos, tokens[k]) THEN -1
    ELSE IF k = Len(tokens) THEN pos + Len(tokens[k])
    ELSE Bind(SeparatorEnd(full, pos + Len(tokens[k])), LAMBDA next :
              IF next = -1 THEN -1 ELSE MatchEnd(full, next, tokens, k + 1))

RECURSIVE SearchFrom(_, _, _)
\* re.search: the leftmost offset at which the pattern matches, as
\* <<start, end>>, or <<-1, -1>> when there is none
SearchFrom(full, tokens, pos) ==
    IF pos > Len(full) THEN <<-1, -1>>
    ELSE Bind(MatchEnd(full, pos, tokens, 1), LAMBDA e :
              IF e # -1 THEN <<pos, e>> ELSE SearchFrom(full, tokens, pos + 1))

re_search(search_text, full) ==
    Bind(Split(search_text), LAMBDA tokens : SearchFrom(full, tokens, 0))

RECURSIVE FindFrom(_, _, _)
\* str.find: the first offset of an exact occurrence, or -1
FindFrom(full, sub, pos) ==
    IF pos + Len(sub) > Len(full) THEN -1
    ELSE IF Slice(full, pos, pos + Len(sub)) = sub THEN pos
    ELSE FindFrom(full, sub, pos + 1)

str_find(full, sub) == FindFrom(full, sub, 0)

-----------------------------------------------------------------------------
(* Paragraph children *)

Author == "Legal Review"
RevisionDate == "2024-01-01T00:00:00Z"

\* <w:r><w:t xml:space="preserve">text</w:t></w:r>
PlainRun(text) == [kind |-> "r", text |-> text, id |-> 0, author |-> "", date |-> ""]

\* a child that is no run and no markup (w:pPr, a bookmark, ...)
OtherChild == [kind |-> "other", text |-> <<>>, id |-> 0, author |-> "", date |-> ""]

\* a mistaken allocator that advances the counter on its first call only
get_next_revision_id_stuck(rid) == IF rid = 0 THEN 1 ELSE rid

\* _revision_id += 1; return _revision_id   (one uninterrupted call)
get_next_revision_id(rid) == rid + 1

create_deletion_element(text, author, date, rid) ==
    [kind |-> "del", text |-> text, id |-> get_next_revision_id(rid),
     author |-> author, date |-> date]

create_insertion_element(text, author, date, rid) ==
    [kind |-> "ins", text |-> text, id |-> get_next_revision_id(rid),
     author |-> author, date |-> date]

\* list.insert(pos, elem) on the children of p_elem (pos is 0-based)
Insert(children, pos, elem) ==
    LET p == Min(pos, Len(children)) IN
    SubSeq(children, 1, p) \o <<elem>> \o SubSeq(children, p + 1, Len(children))

\* p_elem.remove(run), the run being the child at 0-based position pos
Remove(children, pos) ==
    SubSeq(children, 1, pos) \o SubSeq(children, pos + 2, Len(children))

-----------------------------------------------------------------------------
(* find_text_in_runs *)

RECURSIVE RunInfoAccWithDeletions(_, _, _, _)
\* a mistaken run_info that also lists the text held by Deletion nodes
RunInfoAccWithDeletions(children, k, full_len, acc) ==
    IF k > Len(children) THEN acc
    ELSE IF children[k].kind \in {"r", "del"}
         THEN RunInfoAccWithDeletions(children, k + 1,
                         full_len + Len(children[k].text),
                         Append(acc, [run |-> k - 1,
                                      start_pos |-> full_len,
                                      end_pos |-> full_len + Len(children[k].text),
                                      text |-> children[k].text]))
         ELSE RunInfoAccWithDeletions(children, k + 1, full_len, acc)

RECURSIVE RunInfoAcc(_, _, _, _)
\* run_info: for every direct w:r child, in order, its position among the
\* children, its offsets in full_text and its text
RunInfoAcc(children, k, full_len, acc) ==
    IF k > Len(children) THEN acc
    ELSE IF children[k].kind = "r"
         THEN RunInfoAcc(children, k + 1, full_len + Len(children[k].text),
                         Append(acc, [run |-> k - 1,
                                      start_pos |-> full_len,
                                      end_pos |-> full_len + Len(children[k].text),
                                      text |-> children[k].text]))
         ELSE RunInfoAcc(children, k + 1, full_len, acc)

RunInfo(children) == RunInfoAcc(children, 1, 0, <<>>)

RECURSIVE FullTextAcc(_, _)
FullTextAcc(info, k) ==
    IF k > Len(info) THEN <<>> ELSE info[k].text \o FullTextAcc(info, k + 1)

\* full_text: the concatenated text of the direct w:r children
FullText(children) == FullTextAcc(RunInfo(children), 1)

\* match_start, match_end of lines 206-219, or <<-1, -1>> for "return None"
MatchBounds(full, search_text) ==
    Bind(re_search(search_text, full), LAMBDA m :
        IF m[1] = -1
        THEN Bind(str_find(full, search_text), LAMBDA i :
                 IF i = -1 THEN <<-1, -1>> ELSE <<i, i + Len(search_text)>>)
        ELSE m)

\* a mistaken overlap test: a run that merely touches the match counts too
AffectedTouching(r, match_start, match_end) ==
    r.start_pos <= match_end /\ r.end_pos >= match_start

\* the test of line 224
Affected(r, match_start, match_end) ==
    r.start_pos < match_end /\ r.end_pos > match_start

RECURSIVE AffectedRunsAcc(_, _, _, _)
AffectedRunsAcc(info, k, match_start, match_end) ==
    IF k > Len(info) THEN <<>>
    ELSE LET r == info[k]
             rest == AffectedRunsAcc(info, k + 1, match_start, match_end)
         IN IF Affected(r, match_start, match_end)
            THEN <<[run |-> r.run,
                    s |-> Max(0, match_start - r.start_pos),
                    e |-> Min(Len(r.text), match_end - r.start_pos),
                    text |-> r.text]>> \o rest
            ELSE rest

\* the MatchSpan; the empty sequence stands for None
find_text_in_runs(children, search_text) ==
    Bind(RunInfo(children), LAMBDA info :
    Bind(FullTextAcc(info, 1), LAMBDA full_text :
    Bind(MatchBounds(full_text, search_text), LAMBDA b :
        IF b[1] = -1 THEN <<>> ELSE AffectedRunsAcc(info, 1, b[1], b[2]))))

-----------------------------------------------------------------------------
(* apply_track_change_to_paragraph *)

\* "return False" of lines 239-240, reached with a counter consumed on the way
NotAppliedCounted(children, rid) ==
    [applied |-> FALSE, children |-> children, rid |-> rid + 1,
     created |-> <<>>, span |-> <<>>]

\* "return False" of lines 239-240: nothing has been touched
NotApplied(children, rid) ==
    [applied |-> FALSE, children |-> children, rid |-> rid,
     created |-> <<>>, span |-> <<>>]

\* a mistaken suffix that starts at the match instead of after it
AfterTextFromStart(affected) ==
    LET last == affected[Len(affected)] IN Slice(last.text, last.s, Len(last.text))

\* after_text: run_text[end_offset:] / last_text[last_end:]
AfterText(affected) ==
    LET last == affected[Len(affected)] IN Slice(last.text, last.e, Len(last.text))

\* before_text: run_text[:start_offset] / first_text[:first_start]
BeforeText(affected) == Slice(affected[1].text, 0, affected[1].s)

RECURSIVE MatchedParts(_, _)
MatchedParts(affected, k) ==
    IF k > Len(affected) THEN <<>>
    ELSE <<Slice(affected[k].text, affected[k].s, affected[k].e)>>
         \o MatchedParts(affected, k + 1)

\* a mistaken matched text that keeps only the first affected run's part
MatchedTextFirstOnly(affected) ==
    Slice(affected[1].text, affected[1].s, affected[1].e)

\* matched_text: run_text[start_offset:end_offset] for one run, else
\* ''.join(matched_parts)
MatchedText(affected) == Concat(MatchedParts(affected, 1))

RECURSIVE RemoveRuns(_, _, _, _)
\* for run, _, _, _ in affected_runs: p_elem.remove(run).  removed counts the
\* children already taken out before the run's original position
RemoveRuns(children, affected, k, removed) ==
    IF k > Len(affected) THEN children
    ELSE RemoveRuns(Remove(children, affected[k].run - removed), affected,
                    k + 1, removed + 1)

\* the four conditional insertions of lines 264-291 and 322-345, starting at
\* insert_pos in the children left after the removal
InsertMarkup(children, insert_pos, before_text, matched_text, old_text, new_text, after_text, author, date, rid) ==
    LET s0 == [ch |-> children, pos |-> insert_pos, rid |-> rid, created |-> <<>>]
        s1 == IF before_text # <<>>
              THEN [s0 EXCEPT !.ch = Insert(s0.ch, s0.pos, PlainRun(before_text)),
                              !.pos = s0.pos + 1]
              ELSE s0
        del_elem == create_deletion_element(matched_text, author, date, s1.rid)
        s2 == IF old_text # <<>>
              THEN [s1 EXCEPT !.ch = Insert(s1.ch, s1.pos, del_elem),
                              !.pos = s1.pos + 1,
                              !.rid = del_elem.id,
                              !.created = Append(s1.created, del_elem)]
              ELSE s1
        ins_elem == create_insertion_element(new_text, author, date, s2.rid)
        s3 == IF new_text # <<>>
              THEN [s2 EXCEPT !.ch = Insert(s2.ch, s2.pos, ins_elem),
                              !.pos = s2.pos + 1,
                              !.rid = ins_elem.id,
                              !.created = Append(s2.created, ins_elem)]
              ELSE s2
        s4 == IF after_text # <<>>
              THEN [s3 EXCEPT !.ch = Insert(s3.ch, s3.pos, PlainRun(after_text))]
              ELSE s3
    IN s4

apply_track_change_to_paragraph(children, old_text, new_text, author, date, rid) ==
    Bind(find_text_in_runs(children, old_text), LAMBDA result :
    IF result = <<>> THEN NotApplied(children, rid)
    ELSE LET affected_runs == result
             \* list(p_elem).index(run) / list(p_elem).index(first_run)
             first_index == affected_runs[1].run
             removed == IF Len(affected_runs) = 1
                        THEN Remove(children, first_index)
                        ELSE RemoveRuns(children, affected_runs, 1, 0)
         IN Bind(InsertMarkup(removed, first_index,
                              BeforeText(affected_runs),
                              MatchedText(affected_runs),
                              old_text, new_text,
                              AfterText(affected_runs),
                              author, date, rid), LAMBDA built :
            [applied |-> TRUE, children |-> built.ch, rid |-> built.rid,
             created |-> built.created, span |-> affected_runs]))

-----------------------------------------------------------------------------
(* apply_track_changes_to_document *)

\* every cell paragraph of every table: tables, rows, cells, paragraphs
TableOrder(tables) ==
    Concat([t \in 1..Len(tables) |->
        Concat([r \in 1..Len(tables[t]) |-> Concat(tables[t][r])])])

HeaderOrder(section) ==
    section.header \o section.first_page_header \o section.even_page_header

FooterOrder(section) ==
    section.footer \o section.first_page_footer \o section.even_page_footer

\* a mistaken order: the headers of all sections before any footer
SearchOrderHeadersFirst(l) ==
    l.body \o TableOrder(l.tables)
           \o Concat([k \in 1..Len(l.sections) |-> HeaderOrder(l.sections[k])])
           \o Concat([k \in 1..Len(l.sections) |-> FooterOrder(l.sections[k])])

\* the order in which the loops of lines 355-379 reach the paragraphs
SearchOrder(l) ==
    l.body \o TableOrder(l.tables)
           \o Concat([k \in 1..Len(l.sections) |->
                  HeaderOrder(l.sections[k]) \o FooterOrder(l.sections[k])])

RECURSIVE ApplyEverywhereFrom(_, _, _, _, _, _, _, _)
\* a mistaken search that does not return at the first success
ApplyEverywhereFrom(order, k, ps, old_text, new_text, author, date, rid) ==
    IF k > Len(order)
    THEN [applied |-> FALSE, paras |-> ps, rid |-> rid, created |-> <<>>,
          pid |-> 0, span |-> <<>>]
    ELSE Bind(apply_track_change_to_paragraph(ps[order[k]], old_text, new_text,
                                              author, date, rid), LAMBDA r :
         Bind(ApplyEverywhereFrom(order, k + 1,
                                  [ps EXCEPT ![order[k]] = r.children],
                                  old_text, new_text, author, date, r.rid), LAMBDA rest :
            IF r.applied
            THEN [applied |-> TRUE, paras |-> rest.paras, rid |-> rest.rid,
                  created |-> r.created \o rest.created,
                  pid |-> order[k], span |-> r.span]
            ELSE rest))

RECURSIVE ApplyFrom(_, _, _, _, _, _, _, _)
\* the paragraphs are tried in order; the first success returns True
ApplyFrom(order, k, ps, old_text, new_text, author, date, rid) ==
    IF k > Len(order)
    THEN [applied |-> FALSE, paras |-> ps, rid |-> rid, created |-> <<>>,
          pid |-> 0, span |-> <<>>]
    ELSE Bind(apply_track_change_to_paragraph(ps[order[k]], old_text, new_text,
                                              author, date, rid), LAMBDA r :
            IF r.applied
            THEN [applied |-> TRUE, paras |-> [ps EXCEPT ![order[k]] = r.children],
                  rid |-> r.rid, created |-> r.created,
                  pid |-> order[k], span |-> r.span]
            ELSE ApplyFrom(order, k + 1, [ps EXCEPT ![order[k]] = r.children],
                           old_text, new_text, author, date, r.rid))

apply_track_changes_to_document(l, ps, old_text, new_text, author, date, rid) ==
    Bind(SearchOrder(l), LAMBDA order :
        ApplyFrom(order, 1, ps, old_text, new_text, author, date, rid))

-----------------------------------------------------------------------------
(* generate_redlines *)

NoMatch == [pid |-> 0, span |-> <<>>]

\* a mistaken loop that gives up at the first change it cannot place
NextIndexAbort(k, outcome) ==
    IF outcome = "Applied" THEN k + 1 ELSE Len(changes) + 1

\* the for loop of line 455 moves on to the next change whatever happened
NextIndex(k, outcome) == k + 1

CurrentChange == changes[idx]

\* the call of line 457 for the current change
DocResult ==
    apply_track_changes_to_document(layout, paras, CurrentChange.old,
                                    CurrentChange.new, Author, RevisionDate,
                                    revision_id)

\* a mistaken branch that saves a document although there is nothing to apply
NoChangesSaved ==
    /\ pc = "start"
    /\ changes = <<>>
    /\ output' = "saved"
    /\ pc' = "done"
    /\ UNCHANGED <<layout, paras, changes, idx, revision_id, changes_applied,
                   outcomes, created, last_match, t_pc, t_reg, t_ids,
                   original_md, modified_md>>

\* lines 438-443: nothing to do, the original is copied
NoChanges ==
    /\ pc = "start"
    /\ changes = <<>>
    /\ output' = "copy"
    /\ pc' = "done"
    /\ UNCHANGED <<layout, paras, changes, idx, revision_id, changes_applied,
                   outcomes, created, last_match, t_pc, t_reg, t_ids,
                   original_md, modified_md>>

\* lines 445-454: the document is opened and the loop is entered
OpenDocument ==
    /\ pc = "start"
    /\ changes # <<>>
    /\ pc' = "loop"
    /\ changes_applied' = 0
    /\ UNCHANGED <<layout, paras, changes, idx, revision_id, outcomes, created,
                   last_match, output, t_pc, t_reg, t_ids,
                   original_md, modified_md>>

\* lines 456-461: the old text was located and the paragraph rewritten
ChangeApplied ==
    /\ pc = "loop"
    /\ idx <= Len(changes)
    /\ CurrentChange.old # <<>>
    /\ \E r \in {DocResult} :
        /\ r.applied
        /\ paras' = r.paras
        /\ revision_id' = r.rid
        /\ created' = created \o r.created
        /\ last_match' = [pid |-> r.pid, span |-> r.span]
    /\ changes_applied' = changes_applied + 1
    /\ outcomes' = Append(outcomes, "Applied")
    /\ idx' = NextIndex(idx, "Applied")
    /\ UNCHANGED <<layout, changes, pc, output, t_pc, t_reg, t_ids,
                   original_md, modified_md>>

\* lines 462-463: the old text is in no paragraph
ChangeNotFound ==
    /\ pc = "loop"
    /\ idx <= Len(changes)
    /\ CurrentChange.old # <<>>
    /\ \E r \in {DocResult} :
        /\ ~r.applied
        /\ paras' = r.paras
        /\ revision_id' = r.rid
        /\ created' = created \o r.created
    /\ last_match' = NoMatch
    /\ outcomes' = Append(outcomes, "NotFound")
    /\ idx' = NextIndex(idx, "NotFound")
    /\ UNCHANGED <<layout, changes, pc, changes_applied, output, t_pc, t_reg,
                   t_ids, original_md, modified_md>>

\* lines 464-465: a change without old text is only reported
ChangeSkipped ==
    /\ pc = "loop"
    /\ idx <= Len(changes)
    /\ CurrentChange.old = <<>>
    /\ last_match' = NoMatch
    /\ outcomes' = Append(outcomes, IF CurrentChange.new # <<>> THEN "Skipped" ELSE "Ignored")
    /\ idx' = NextIndex(idx, "Skipped")
    /\ UNCHANGED <<layout, paras, changes, pc, revision_id, changes_applied,
                   created, output, t_pc, t_reg, t_ids, original_md, modified_md>>

\* lines 467-484: the loop is over and the document is saved
Save ==
    /\ pc = "loop"
    /\ idx > Len(changes)
    /\ output' = "saved"
    /\ pc' = "done"
    /\ UNCHANGED <<layout, paras, changes, idx, revision_id, changes_applied,
                   outcomes, created, last_match, t_pc, t_reg, t_ids,
                   original_md, modified_md>>

Next ==
    \/ NoChanges
    \/ OpenDocument
    \/ ChangeApplied
    \/ ChangeNotFound
    \/ ChangeSkipped
    \/ Save

-----------------------------------------------------------------------------
(* Documents and change lists of the document-level specification *)

Section(h, fh, f) ==
    [header |-> h, first_page_header |-> fh, even_page_header |-> <<>>,
     footer |-> f, first_page_footer |-> <<>>, even_page_footer |-> <<>>]

\* two body paragraphs holding the same phrases
DocBody ==
    [layout |-> [body |-> <<1, 2>>, tables |-> <<>>,
                 sections |-> <<Section(<<>>, <<>>, <<>>)>>],
     paras |-> <<
        <<PlainRun(<<"a", " ", "b", " ", "a">>)>>,
        <<OtherChild, PlainRun(<<"a", " ", "b">>), PlainRun(<<" ", "a">>)>> >>]

\* a body paragraph, one table row of two cells, one section
DocTable ==
    [layout |-> [body |-> <<1>>,
                 tables |-> << << << <<2>>, <<3>> >> >> >>,
                 sections |-> <<Section(<<4>>, <<5>>, <<6>>)>>],
     paras |-> <<
        <<PlainRun(<<"x">>)>>,
        <<PlainRun(<<"a">>), PlainRun(<<" ", "b">>)>>,
        <<PlainRun(<<"b">>)>>,
        <<PlainRun(<<"h">>)>>,
        <<PlainRun(<<"h", " ">>), PlainRun(<<"b">>)>>,
        <<PlainRun(<<"h">>)>> >>]

\* two sections; the phrase "h" is in the first section's footer and in the
\* second section's header and footer
DocSections ==
    [layout |-> [body |-> <<1>>, tables |-> <<>>,
                 sections |-> <<Section(<<2>>, <<>>, <<3>>),
                                Section(<<4>>, <<>>, <<5>>)>>],
     paras |-> <<
        <<PlainRun(<<"a", " ", "b", " ", "a">>)>>,
        <<PlainRun(<<"x">>)>>,
        <<PlainRun(<<"h">>)>>,
        <<PlainRun(<<"H">>)>>,
        <<PlainRun(<<"h">>)>> >>]

Docs == {DocBody, DocTable, DocSections}

OldPool == {<<>>, <<"b">>, <<"a", " ", "b">>, <<"a", " ", "a">>, <<"h">>, <<"z">>}
NewPool == {<<>>, <<"c">>}

\* find_text_changes never returns a change with both sides empty
ChangePool == {c \in [old : OldPool, new : NewPool] : c.old # <<>> \/ c.new # <<>>}

ChangeLists == UNION {[1..n -> ChangePool] : n \in 0..MaxChanges}

InitRun ==
    /\ idx = 1
    /\ pc = "start"
    /\ revision_id = 0
    /\ changes_applied = 0
    /\ outcomes = <<>>
    /\ created = <<>>
    /\ last_match = NoMatch
    /\ output = "none"
    /\ t_pc = <<>>
    /\ t_reg = <<>>
    /\ t_ids = <<>>
    /\ original_md = <<>>
    /\ modified_md = <<>>

Init ==
    /\ \E d \in Docs : layout = d.layout /\ paras = d.paras
    /\ changes \in ChangeLists
    /\ InitRun

Spec == Init /\ [][Next]_vars

-----------------------------------------------------------------------------
(* Paragraphs and changes of the paragraph-level specification *)

ParaChars == {"a", "A", " "}
OldChars == {"a", " "}

TextsOver(chars, n) == UNION {[1..k -> chars] : k \in 0..n}

Stripped(t) == t = <<>> \/ (~IsSpace(t[1]) /\ ~IsSpace(t[Len(t)]))

\* the text cut into three runs, some of which may be empty
ThreeRuns(t, c1, c2) ==
    <<PlainRun(Slice(t, 0, c1)), PlainRun(Slice(t, c1, c2)),
      PlainRun(Slice(t, c2, Len(t)))>>

ParagraphsOf(t) ==
    {ThreeRuns(t, c[1], c[2]) :
        c \in {d \in (0..Len(t)) \X (0..Len(t)) : d[1] <= d[2]}}

GeneratedParagraphs == UNION {ParagraphsOf(t) : t \in TextsOver(ParaChars, MaxText)}

PaymentParagraph ==
    <<PlainRun(<<"P", "a", "y", "m", "e", "n", "t", " ", "o", "f", " ">>),
      PlainRun(<<"$", "5", "0", "0">>),
      PlainRun(<<" ", "i", "s", " ", "d", "u", "e">>)>>

IsDueParagraph == <<PlainRun(<<"i", "s", "d", "u", "e">>)>>

ExampleCases ==
    { [p |-> PaymentParagraph,
       c |-> [old |-> <<"5", "0", "0">>, new |-> <<"7", "5", "0">>]],
      [p |-> PaymentParagraph,
       c |-> [old |-> <<"$", "5", "0", "0", " ", "i", "s">>, new |-> <<>>]],
      [p |-> PaymentParagraph,
       c |-> [old |-> <<"i", "s", " ", " ", "d", "u", "e">>, new |-> <<>>]],
      [p |-> IsDueParagraph,
       c |-> [old |-> <<"i", "s", " ", "d", "u", "e">>, new |-> <<"x">>]] }

GeneratedCases ==
    { [p |-> p, c |-> [old |-> o, new |-> n]] :
        p \in GeneratedParagraphs,
        o \in {t \in TextsOver(OldChars, MaxOldLen) : Stripped(t)} \cup {<<"A">>},
        n \in NewPool } 

SingleParagraph == [body |-> <<1>>, tables |-> <<>>, sections |-> <<>>]

InitPara ==
    /\ layout = SingleParagraph
    /\ \/ /\ paras = <<PaymentParagraph>>
          /\ changes = <<>>
       \/ \E x \in ExampleCases \cup GeneratedCases :
            /\ x.c.old # <<>> \/ x.c.new # <<>>
            /\ paras = <<x.p>>
            /\ changes = <<x.c>>
    /\ InitRun

SpecPara == InitPara /\ [][Next]_vars

-----------------------------------------------------------------------------
(* Vocabulary of the properties *)

Range(seq) == {seq[k] : k \in 1..Len(seq)}

\* the step processes the change at position idx of the list
ProcessesChange == pc = "loop" /\ idx <= Len(changes) /\ idx' # idx

\* the locator finds the text in the paragraph as it is before the step
LocatedIn(pid, text) == find_text_in_runs(paras[pid], text) # <<>>

LocatedSomewhere(text) == \E pid \in DOMAIN paras : LocatedIn(pid, text)

LastOutcome(seq) == seq[Len(seq)]

\* the paragraphs that the step rewrote
Rewritten == {pid \in DOMAIN paras : paras'[pid] # paras[pid]}

\* the markup nodes of the document, by paragraph and position
MarkupPlaces ==
    {pl \in UNION {{<<pid, k>> : k \in 1..Len(paras[pid])} : pid \in DOMAIN paras} :
        paras[pl[1]][pl[2]].kind \in {"del", "ins"}}

NodeAt(pl) == paras[pl[1]][pl[2]]

-----------------------------------------------------------------------------
(* C1 *)

\* C1: a change that ends up NotFound (its old text is located in no
\* paragraph of the body, the tables, the headers or the footers) or Skipped
\* (its old text is empty) leaves every paragraph's children, every run's
\* text and the revision-id counter as they were before it was processed.
C1_UnplacedChangeLeavesTreeUntouched ==
    [][ (ProcessesChange
         /\ (CurrentChange.old = <<>> \/ ~LocatedSomewhere(CurrentChange.old)))
        => /\ LastOutcome(outcomes') \in {"NotFound", "Skipped"}
           /\ paras' = paras
           /\ revision_id' = revision_id
           /\ created' = created ]_vars

\* a run in which, after an applied change had rewritten the tree, one change
\* was not found and one was skipped
C1_Witness ==
    /\ pc = "done"
    /\ outcomes = <<"Applied", "NotFound">> \/ outcomes = <<"Applied", "Skipped">>
    /\ revision_id > 0

-----------------------------------------------------------------------------
(* C2 *)

\* C2: within one single-threaded run every Insertion and Deletion node
\* created by the run carries an id no other node of the run carries, ids are
\* issued in strictly increasing order of creation, and the Deletion node of
\* a replacement has a smaller id than the Insertion node created with it.
C2_RevisionIdsUniqueAndIncreasing ==
    /\ \A j, k \in 1..Len(created) : j < k => created[j].id < created[k].id
    /\ \A a, b \in MarkupPlaces : a # b => NodeAt(a).id # NodeAt(b).id
    /\ \A a \in MarkupPlaces : \E k \in 1..Len(created) : created[k] = NodeAt(a)
    /\ \A k \in 1..Len(created) :
         created[k].kind = "ins"
            => /\ k > 1
               /\ created[k - 1].kind = "del"
               /\ created[k - 1].id < created[k].id
    /\ \A a \in MarkupPlaces :
         NodeAt(a).kind = "ins"
            => /\ a[2] > 1
               /\ paras[a[1]][a[2] - 1].kind = "del"
               /\ paras[a[1]][a[2] - 1].id < NodeAt(a).id

\* two replacements have been applied: two Deletion/Insertion pairs exist
C2_Witness ==
    /\ Len(created) = 4
    /\ Cardinality(MarkupPlaces) = 4
    /\ created[1].kind = "del" /\ created[2].kind = "ins"
    /\ created[3].kind = "del" /\ created[4].kind = "ins"

-----------------------------------------------------------------------------
(* C3 *)

\* the first paragraph of the search order in which the locator succeeds
FirstLocated(order, text) ==
    order[CHOOSE k \in 1..Len(order) :
            /\ LocatedIn(order[k], text)
            /\ \A j \in 1..(k - 1) : ~LocatedIn(order[j], text)]

\* C3: an Applied change with non-empty old text rewrites exactly one
\* paragraph, the first one of the search order in which the locator finds
\* the old text; every other paragraph, earlier or later, also one that
\* contains the old text too, is left unchanged.
C3_OnlyFirstMatchingParagraphRewritten ==
    [][ (ProcessesChange /\ CurrentChange.old # <<>>
         /\ LocatedSomewhere(CurrentChange.old))
        => /\ LastOutcome(outcomes') = "Applied"
           /\ Rewritten = {FirstLocated(SearchOrder(layout), CurrentChange.old)} ]_vars

\* the phrase "b" stood in both body paragraphs; the first was rewritten and
\* the second still reads as before
C3_Witness ==
    /\ layout = DocBody.layout
    /\ outcomes = <<"Applied">>
    /\ changes[1].old = <<"b">>
    /\ paras[1] # DocBody.paras[1]
    /\ paras[2] = DocBody.paras[2]
    /\ find_text_in_runs(paras[2], <<"b">>) # <<>>

-----------------------------------------------------------------------------
(* C4 *)

BodyParas == Range(layout.body)
TableParas == Range(TableOrder(layout.tables))
HeaderParas(k) == Range(HeaderOrder(layout.sections[k]))
FooterParas(k) == Range(FooterOrder(layout.sections[k]))
SectionIndexes == 1..Len(layout.sections)
AllHeaderParas == UNION {HeaderParas(k) : k \in SectionIndexes}
AllFooterParas == UNION {FooterParas(k) : k \in SectionIndexes}

LocatedAmong(pids, text) == \E pid \in pids : LocatedIn(pid, text)

\* the change has non-empty old text found in no body or table paragraph but
\* in a header paragraph of some section and a footer paragraph of some section
InHeaderAndFooterOnly ==
    /\ ProcessesChange
    /\ CurrentChange.old # <<>>
    /\ ~LocatedAmong(BodyParas \cup TableParas, CurrentChange.old)
    /\ LocatedAmong(AllHeaderParas, CurrentChange.old)
    /\ LocatedAmong(AllFooterParas, CurrentChange.old)

\* C4 as stated: body, then tables, then headers, then footers; a change found
\* in no body or table paragraph but in a header paragraph of some section
\* and in a footer paragraph of some section is applied to the header
\* paragraph, never to the footer paragraph.
C4_HeadersBeforeAllFooters ==
    [][ InHeaderAndFooterOnly
        => Rewritten # {} /\ Rewritten \subseteq AllHeaderParas ]_vars

\* the first section that holds the text in one of its headers or footers
FirstSectionWith(text) ==
    CHOOSE k \in SectionIndexes :
        /\ LocatedAmong(HeaderParas(k) \cup FooterParas(k), text)
        /\ \A j \in 1..(k - 1) : ~LocatedAmong(HeaderParas(j) \cup FooterParas(j), text)

\* C4 (amended): the scopes are tried in the order body paragraphs, table
\* cells, then section by section, each section's headers before that
\* section's footers.  A located change is applied in the body if a body
\* paragraph holds its old text, else in a table cell if one holds it, else in
\* the first section holding it in a header or footer: to a header paragraph
\* of that section if one holds it, otherwise to a footer paragraph of that
\* section, even if a later section's header holds the text too.
C4_ScopePriorityIsPerSection ==
    [][ (ProcessesChange /\ CurrentChange.old # <<>>
         /\ LocatedSomewhere(CurrentChange.old))
        => /\ Rewritten # {}
           /\ IF LocatedAmong(BodyParas, CurrentChange.old)
              THEN Rewritten \subseteq BodyParas
              ELSE IF LocatedAmong(TableParas, CurrentChange.old)
              THEN Rewritten \subseteq TableParas
              ELSE LET k == FirstSectionWith(CurrentChange.old) IN
                   IF LocatedAmong(HeaderParas(k), CurrentChange.old)
                   THEN Rewritten \subseteq HeaderParas(k)
                   ELSE Rewritten \subseteq FooterParas(k) ]_vars

\* the first section's footer was rewritten although the second section's
\* header holds the phrase as well
C4_Witness ==
    /\ layout = DocSections.layout
    /\ outcomes = <<"Applied">>
    /\ changes[1].old = <<"h">>
    /\ paras[3] # DocSections.paras[3]
    /\ paras[4] = DocSections.paras[4]
    /\ find_text_in_runs(paras[4], <<"h">>) # <<>>

-----------------------------------------------------------------------------
(* Vocabulary of the paragraph properties *)

\* a child reduced to its kind and text
Shape(children) ==
    [k \in 1..Len(children) |-> <<children[k].kind, children[k].text>>]

RECURSIVE FlatText(_)
\* the flattened text: the texts of the plain runs, in order
FlatText(children) ==
    IF children = <<>> THEN <<>>
    ELSE (IF Head(children).kind = "r" THEN Head(children).text ELSE <<>>)
         \o FlatText(Tail(children))

\* offset in the flattened text at which the child at 0-based position pos starts
StartOf(children, pos) == Len(FlatText(SubSeq(children, 1, pos)))

\* the paragraph in which the step located the old text, as it was before
LocatedPara == paras[last_match'.pid]

\* the step located the old text of the current change and rewrote a paragraph
AppliesChange ==
    /\ ProcessesChange
    /\ CurrentChange.old # <<>>
    /\ last_match'.pid # 0

OnlyIf(cond, elems) == IF cond THEN elems ELSE <<>>

-----------------------------------------------------------------------------
(* C5 *)

\* C5: when the located match lies inside a single run with text T and local
\* offsets [s, e), the run is replaced, at its former position, by
\* PlainRun(T[0:s]) if non-empty, Deletion(T[s:e]) if old is non-empty,
\* Insertion(new) if new is non-empty, PlainRun(T[e:]) if non-empty, in this
\* order; all other children keep their content and relative order.  Runs
\* "Payment of ", "$500", " is due" with change ("500", "750") become
\* PlainRun("Payment of "), PlainRun("$"), Deletion("500"), Insertion("750"),
\* PlainRun(" is due").
C5_SingleRunSplit ==
    [][ (AppliesChange /\ Len(last_match'.span) = 1)
        => LET ch == LocatedPara
               m == last_match'.span[1]
               T == ch[m.run + 1].text
               new_ch == paras'[last_match'.pid]
               expected ==
                   OnlyIf(Slice(T, 0, m.s) # <<>>, << <<"r", Slice(T, 0, m.s)>> >>)
                   \o OnlyIf(CurrentChange.old # <<>>, << <<"del", Slice(T, m.s, m.e)>> >>)
                   \o OnlyIf(CurrentChange.new # <<>>, << <<"ins", CurrentChange.new>> >>)
                   \o OnlyIf(Slice(T, m.e, Len(T)) # <<>>, << <<"r", Slice(T, m.e, Len(T))>> >>)
               rest == Len(ch) - (m.run + 1)
           IN /\ ch[m.run + 1].kind = "r"
              /\ Len(new_ch) = m.run + Len(expected) + rest
              /\ SubSeq(new_ch, 1, m.run) = SubSeq(ch, 1, m.run)
              /\ SubSeq(Shape(new_ch), m.run + 1, m.run + Len(expected)) = expected
              /\ SubSeq(new_ch, Len(new_ch) - rest + 1, Len(new_ch))
                    = SubSeq(ch, m.run + 2, Len(ch))
              /\ (ch = PaymentParagraph
                  /\ CurrentChange = [old |-> <<"5", "0", "0">>, new |-> <<"7", "5", "0">>])
                 => Shape(new_ch) =
                      << <<"r", <<"P", "a", "y", "m", "e", "n", "t", " ", "o", "f", " ">> >>,
                         <<"r", <<"$">> >>,
                         <<"del", <<"5", "0", "0">> >>,
                         <<"ins", <<"7", "5", "0">> >>,
                         <<"r", <<" ", "i", "s", " ", "d", "u", "e">> >> >> ]_vars

\* the example paragraph after the change ("500", "750")
C5_Witness ==
    /\ outcomes = <<"Applied">>
    /\ Len(last_match.span) = 1
    /\ Shape(paras[1]) =
         << <<"r", <<"P", "a", "y", "m", "e", "n", "t", " ", "o", "f", " ">> >>,
            <<"r", <<"$">> >>,
            <<"del", <<"5", "0", "0">> >>,
            <<"ins", <<"7", "5", "0">> >>,
            <<"r", <<" ", "i", "s", " ", "d", "u", "e">> >> >>

-----------------------------------------------------------------------------
(* C7 *)

\* the range [a, b) of a run and the match bounds [ms, me); a zero-length run
\* strictly inside the bounds counts as overlapping
Overlaps(a, b, ms, me) == a < me /\ b > ms

-----------------------------------------------------------------------------
(* C8 *)

LowerText(t) == [k \in 1..Len(t) |-> Lower(t[k])]

\* the text the step matched: the local substrings of the affected runs
MatchedByStep ==
    Concat([k \in 1..Len(last_match'.span) |->
               Slice(last_match'.span[k].text, last_match'.span[k].s,
                     last_match'.span[k].e)])

RECURSIVE WithoutSpaces(_)
WithoutSpaces(t) ==
    IF t = <<>> THEN <<>>
    ELSE (IF IsSpace(Head(t)) THEN <<>> ELSE <<Head(t)>>) \o WithoutSpaces(Tail(t))

\* the numbers of non-whitespace characters at which one token ends and the
\* next begins
RECURSIVE TokenBoundaries(_, _, _)
TokenBoundaries(tokens, k, sum) ==
    IF k >= Len(tokens) THEN {}
    ELSE {sum + Len(tokens[k])} \cup TokenBoundaries(tokens, k + 1, sum + Len(tokens[k]))

\* the tokens, ignoring case, in order, with zero or more whitespace
\* characters between consecutive tokens and nothing else
TokensWithOptionalSpace(m, tokens) ==
    /\ LowerText(WithoutSpaces(m)) = LowerText(Concat(tokens))
    /\ \A p \in 1..Len(m) :
          IsSpace(m[p])
             => Len(WithoutSpaces(SubSeq(m, 1, p))) \in TokenBoundaries(tokens, 1, 0)

\* the tokens, ignoring case, in order, with one or more whitespace characters
\* between consecutive tokens and nothing else
TokensWithSpace(m, tokens) ==
    /\ TokensWithOptionalSpace(m, tokens)
    /\ Len(Split(m)) = Len(tokens)

IsDueQuery == <<"i", "s", " ", "d", "u", "e">>

\* C8 as stated: the whitespace-flexible match accepts a position only if the
\* query's tokens appear there in order, ignoring case, with one or more
\* whitespace characters between consecutive tokens; query "is due" is not
\* matched in the text "isdue".
C8_TokensNeedWhitespaceBetween ==
    [][ /\ AppliesChange
           => TokensWithSpace(MatchedByStep, Split(CurrentChange.old))
        /\ (ProcessesChange /\ paras = <<IsDueParagraph>>
            /\ CurrentChange.old = IsDueQuery)
           => LastOutcome(outcomes') = "NotFound" ]_vars

\* C8 (amended): the whitespace-flexible match accepts a position only if the
\* query's tokens appear there in order, ignoring case, with zero or more
\* whitespace characters between consecutive tokens; query "is due" is
\* matched in the text "isdue", whose tokens are adjacent.
C8_TokensMayBeAdjacent ==
    [][ /\ AppliesChange
           => TokensWithOptionalSpace(MatchedByStep, Split(CurrentChange.old))
        /\ (ProcessesChange /\ paras = <<IsDueParagraph>>
            /\ CurrentChange.old = IsDueQuery)
           => /\ LastOutcome(outcomes') = "Applied"
              /\ MatchedByStep = <<"i", "s", "d", "u", "e">> ]_vars

\* the query "is due" was applied to the paragraph "isdue"
C8_Witness ==
    /\ outcomes = <<"Applied">>
    /\ changes[1].old = IsDueQuery
    /\ Shape(paras[1]) = << <<"del", <<"i", "s", "d", "u", "e">> >>, <<"ins", <<"x">> >> >>

-----------------------------------------------------------------------------
(* C6 *)

\* the sequence a multi-run match is replaced by, as kinds and texts
MultiRunReplacement(span, new_text) ==
    LET first == span[1]
        last == span[Len(span)]
        M == Concat([k \in 1..Len(span) |-> Slice(span[k].text, span[k].s, span[k].e)])
    IN OnlyIf(first.s > 0, << <<"r", Slice(first.text, 0, first.s)>> >>)
       \o << <<"del", M>> >>
       \o OnlyIf(new_text # <<>>, << <<"ins", new_text>> >>)
       \o OnlyIf(last.e < Len(last.text),
                 << <<"r", Slice(last.text, last.e, Len(last.text))>> >>)

\* a child that is not an affected run stands between two affected runs
ChildInsideSpan(span) ==
    \E pos \in (span[1].run + 1)..(span[Len(span)].run - 1) :
        \A k \in 1..Len(span) : span[k].run # pos

\* what the step has to do to the located paragraph for a multi-run match:
\* the affected runs are gone, the replacement sequence stands at the position
\* of the first affected run, the children before the span are still before
\* it and exactly the children that followed the span follow the replacement
MultiRunRewrite ==
    LET ch == LocatedPara
        span == last_match'.span
        new_ch == paras'[last_match'.pid]
        first == span[1].run
        last == span[Len(span)].run
        repl == MultiRunReplacement(span, CurrentChange.new)
        following == SubSeq(ch, last + 2, Len(ch))
    IN /\ Len(new_ch) = Len(ch) - Len(span) + Len(repl)
       /\ SubSeq(new_ch, 1, first) = SubSeq(ch, 1, first)
       /\ SubSeq(Shape(new_ch), first + 1, first + Len(repl)) = repl
       /\ SubSeq(new_ch, first + Len(repl) + 1, Len(new_ch)) = following

\* C6: when the located match spans two or more runs, all affected runs are
\* removed and, at the position of the first affected run, the paragraph
\* receives PlainRun(prefix of the first affected run) if non-empty,
\* Deletion(M), Insertion(new) if new is non-empty, PlainRun(suffix of the
\* last affected run) if non-empty, M being the affected runs' own matched
\* substrings concatenated; every child that is not an affected run keeps its
\* content and its position relative to the replaced span.
C6_MultiRunReplacedInPlace ==
    [][ (AppliesChange /\ Len(last_match'.span) >= 2) => MultiRunRewrite ]_vars

\* the part of C6 the code keeps: the same, for a span that has no other
\* child between its affected runs
C6_MultiRunReplacedInPlaceWhenContiguous ==
    [][ (AppliesChange /\ Len(last_match'.span) >= 2
         /\ ~ChildInsideSpan(last_match'.span)) => MultiRunRewrite ]_vars

-----------------------------------------------------------------------------
(* C9 *)

\* C9: a per-change failure never stops the run: each change is processed
\* exactly once in list order; after a change that is NotFound or Skipped
\* every later change is still searched for and, if its old text is located,
\* applied; the run reaches the end of the list: every step taken inside the
\* loop moves to the next change, and the loop is left only after the last
\* change, by saving the document.
C9_EveryChangeIsProcessed ==
    [][ /\ (pc = "start" /\ pc' = "loop") => (idx' = 1 /\ outcomes' = <<>>)
        /\ (pc = "loop" /\ idx <= Len(changes))
           => /\ pc' = "loop"
              /\ idx' = idx + 1
              /\ Len(outcomes') = idx
              /\ SubSeq(outcomes', 1, idx - 1) = outcomes
              /\ (CurrentChange.old # <<>> /\ LocatedSomewhere(CurrentChange.old))
                    <=> LastOutcome(outcomes') = "Applied"
              /\ LastOutcome(outcomes') = "Applied" <=> Rewritten # {}
        /\ (pc = "loop" /\ idx > Len(changes))
           => /\ idx = Len(changes) + 1
              /\ Len(outcomes) = Len(changes)
              /\ pc' = "done"
              /\ output' = "saved" ]_vars

\* a change was applied after an earlier one had not been found or had been
\* skipped, and the run has ended
C9_Witness ==
    /\ pc = "done"
    /\ output = "saved"
    /\ Len(outcomes) = 2
    /\ outcomes[1] \in {"NotFound", "Skipped"}
    /\ outcomes[2] = "Applied"

-----------------------------------------------------------------------------
(* Two redline runs in one process: the steps of get_next_revision_id *)

Runs == {1, 2}

InitConc ==
    /\ layout = SingleParagraph
    /\ paras = <<>>
    /\ changes = <<>>
    /\ idx = 1
    /\ pc = "concurrent"
    /\ revision_id = 0
    /\ changes_applied = 0
    /\ outcomes = <<>>
    /\ created = <<>>
    /\ last_match = NoMatch
    /\ output = "none"
    /\ t_pc = [t \in Runs |-> "call"]
    /\ t_reg = [t \in Runs |-> 0]
    /\ t_ids = [t \in Runs |-> <<>>]
    /\ original_md = <<>>
    /\ modified_md = <<>>

ConcFrame ==
    UNCHANGED <<layout, paras, changes, idx, pc, changes_applied, outcomes,
                created, last_match, output, original_md, modified_md>>

\* line 53, LOAD_GLOBAL _revision_id: the run reads the counter
LoadCounter(t) ==
    /\ t_pc[t] = "call"
    /\ Len(t_ids[t]) < MaxAllocs
    /\ t_reg' = [t_reg EXCEPT ![t] = revision_id]
    /\ t_pc' = [t_pc EXCEPT ![t] = "add"]
    /\ UNCHANGED <<revision_id, t_ids>>
    /\ ConcFrame

\* line 53, INPLACE_ADD: one is added to the value read
AddOne(t) ==
    /\ t_pc[t] = "add"
    /\ t_reg' = [t_reg EXCEPT ![t] = t_reg[t] + 1]
    /\ t_pc' = [t_pc EXCEPT ![t] = "store"]
    /\ UNCHANGED <<revision_id, t_ids>>
    /\ ConcFrame

\* line 53, STORE_GLOBAL _revision_id: the sum is written to the counter
StoreCounter(t) ==
    /\ t_pc[t] = "store"
    /\ revision_id' = t_reg[t]
    /\ t_pc' = [t_pc EXCEPT ![t] = "return"]
    /\ UNCHANGED <<t_reg, t_ids>>
    /\ ConcFrame

\* line 54, LOAD_GLOBAL _revision_id; RETURN_VALUE: the counter is read again
\* and returned as the id of the node being created
ReturnCounter(t) ==
    /\ t_pc[t] = "return"
    /\ t_ids' = [t_ids EXCEPT ![t] = Append(t_ids[t], revision_id)]
    /\ t_pc' = [t_pc EXCEPT ![t] = "call"]
    /\ UNCHANGED <<revision_id, t_reg>>
    /\ ConcFrame

NextConc ==
    \E t \in Runs :
        \/ LoadCounter(t)
        \/ AddOne(t)
        \/ StoreCounter(t)
        \/ ReturnCounter(t)

SpecConc == InitConc /\ [][NextConc]_vars

-----------------------------------------------------------------------------
(* C10 *)

\* C10: when two redline runs execute concurrently in one process, id
\* allocation is per run or mutually exclusive, so that under every
\* interleaving of the allocator steps (read counter, add one, write counter,
\* read counter for the return value) no run receives the same revision id
\* twice and no two nodes of one output document share an id.
C10_NoRunReceivesAnIdTwice ==
    \A t \in Runs :
        \A j, k \in 1..Len(t_ids[t]) : j < k => t_ids[t][j] # t_ids[t][k]

-----------------------------------------------------------------------------
(* difflib.SequenceMatcher(None, a, b).get_opcodes() for sequences too short *)
(* for the automatic junk heuristic (fewer than 200 elements)                *)

\* the non-empty blocks a[i:i+k] == b[j:j+k] inside a[alo:ahi] and b[blo:bhi]
CommonBlocks(a, b, alo, ahi, blo, bhi) ==
    {c \in (alo..(ahi - 1)) \X (blo..(bhi - 1)) \X (1..(ahi - alo)) :
        /\ c[1] + c[3] <= ahi
        /\ c[2] + c[3] <= bhi
        /\ \A d \in 1..c[3] : a[c[1] + d] = b[c[2] + d]}

\* c is at least as good a block as o: longer, or as long and starting
\* earlier in a, or as long, starting at the same place in a and not later in b
BlockPreferred(c, o) ==
    \/ c[3] > o[3]
    \/ c[3] = o[3] /\ c[1] < o[1]
    \/ c[3] = o[3] /\ c[1] = o[1] /\ c[2] <= o[2]

\* find_longest_match: <<i, j, k>>, or <<alo, blo, 0>> when nothing matches
find_longest_match(a, b, alo, ahi, blo, bhi) ==
    Bind(CommonBlocks(a, b, alo, ahi, blo, bhi), LAMBDA blocks :
        IF blocks = {} THEN <<alo, blo, 0>>
        ELSE CHOOSE c \in blocks : \A o \in blocks : BlockPreferred(c, o))

RECURSIVE MatchingBlocks(_, _, _, _, _, _)
\* get_matching_blocks: the longest block, then the same to its left and to
\* its right, in increasing order
MatchingBlocks(a, b, alo, ahi, blo, bhi) ==
    Bind(find_longest_match(a, b, alo, ahi, blo, bhi), LAMBDA m :
        IF m[3] = 0 THEN <<>>
        ELSE (IF alo < m[1] /\ blo < m[2]
              THEN MatchingBlocks(a, b, alo, m[1], blo, m[2]) ELSE <<>>)
             \o <<m>>
             \o (IF m[1] + m[3] < ahi /\ m[2] + m[3] < bhi
                 THEN MatchingBlocks(a, b, m[1] + m[3], ahi, m[2] + m[3], bhi)
                 ELSE <<>>))

\* the blocks followed by the sentinel (len(a), len(b), 0)
get_matching_blocks(a, b) ==
    MatchingBlocks(a, b, 0, Len(a), 0, Len(b)) \o << <<Len(a), Len(b), 0>> >>

\* a mistaken rule that reports a replaced range as a deletion only
OpcodeTagDeleteFirst(i, ai, j, bj) ==
    IF i < ai THEN "delete"
    ELSE IF j < bj THEN "insert"
    ELSE ""

\* the tag for what lies between the offsets i, j and the block at ai, bj
OpcodeTag(i, ai, j, bj) ==
    IF i < ai /\ j < bj THEN "replace"
    ELSE IF i < ai THEN "delete"
    ELSE IF j < bj THEN "insert"
    ELSE ""

\* a mistaken step that does not move the offset in b past the block
AfterBlockStuck(block, j) == <<block[1] + block[3], j>>

\* i, j = ai + size, bj + size
AfterBlock(block, j) == <<block[1] + block[3], block[2] + block[3]>>

RECURSIVE Opcodes(_, _, _, _)
Opcodes(blocks, k, i, j) ==
    IF k > Len(blocks) THEN <<>>
    ELSE LET ai == blocks[k][1]
             bj == blocks[k][2]
             size == blocks[k][3]
             tag == OpcodeTag(i, ai, j, bj)
             next == AfterBlock(blocks[k], j)
         IN (IF tag # ""
             THEN <<[tag |-> tag, i1 |-> i, i2 |-> ai, j1 |-> j, j2 |-> bj]>>
             ELSE <<>>)
            \o (IF size > 0
                THEN <<[tag |-> "equal", i1 |-> ai, i2 |-> next[1],
                        j1 |-> bj, j2 |-> next[2]]>>
                ELSE <<>>)
            \o Opcodes(blocks, k + 1, next[1], next[2])

get_opcodes(a, b) ==
    Bind(get_matching_blocks(a, b), LAMBDA blocks : Opcodes(blocks, 1, 0, 0))

-----------------------------------------------------------------------------
(* find_word_changes and find_text_changes *)

RECURSIVE SplitLinesAcc(_, _, _, _)
SplitLinesAcc(text, k, cur, acc) ==
    IF k > Len(text)
    THEN IF cur = <<>> THEN acc ELSE Append(acc, cur)
    ELSE IF text[k] = "\n"
         THEN SplitLinesAcc(text, k + 1, <<>>, Append(acc, cur))
         ELSE SplitLinesAcc(text, k + 1, Append(cur, text[k]), acc)

\* str.splitlines(): the lines without their line breaks; a line break at the
\* end of the text does not open another line
splitlines(text) == SplitLinesAcc(text, 1, <<>>, <<>>)

RECURSIVE Join(_, _)
\* sep.join(seqs)
Join(sep, seqs) ==
    IF seqs = <<>> THEN <<>>
    ELSE IF Len(seqs) = 1 THEN seqs[1]
    ELSE seqs[1] \o sep \o Join(sep, Tail(seqs))

\* normalize_text: ' '.join(text.split())
normalize_text(text) == Join(<<" ">>, Split(text))

RECURSIVE LStrip(_)
LStrip(text) ==
    IF text # <<>> /\ IsSpace(Head(text)) THEN LStrip(Tail(text)) ELSE text

RECURSIVE RStrip(_)
RStrip(text) ==
    IF text # <<>> /\ IsSpace(text[Len(text)])
    THEN RStrip(SubSeq(text, 1, Len(text) - 1)) ELSE text

\* str.strip()
Strip(text) == RStrip(LStrip(text))

Change(old, new) == [old |-> old, new |-> new]

\* the body of the loop of lines 113-128 for one opcode
WordChangesOf(op, orig_words, mod_words) ==
    LET old_phrase == Join(<<" ">>, Slice(orig_words, op.i1, op.i2))
        new_phrase == Join(<<" ">>, Slice(mod_words, op.j1, op.j2))
    IN IF op.tag = "replace"
       THEN IF old_phrase # new_phrase THEN <<Change(old_phrase, new_phrase)>> ELSE <<>>
       ELSE IF op.tag = "delete"
       THEN IF Strip(old_phrase) # <<>> THEN <<Change(old_phrase, <<>>)>> ELSE <<>>
       ELSE IF op.tag = "insert"
       THEN IF Strip(new_phrase) # <<>> THEN <<Change(<<>>, new_phrase)>> ELSE <<>>
       ELSE <<>>

\* re.findall(r'\S+', text) yields the pieces str.split() yields
find_word_changes(orig_text, mod_text) ==
    Bind(Split(orig_text), LAMBDA orig_words :
    Bind(Split(mod_text), LAMBDA mod_words :
    Bind(get_opcodes(orig_words, mod_words), LAMBDA ops :
        Concat([k \in 1..Len(ops) |-> WordChangesOf(ops[k], orig_words, mod_words)]))))

\* the body of the loop of lines 88-101 for one opcode
TextChangesOf(op, orig_lines, mod_lines) ==
    LET orig_text == Join(<<"\n">>, Slice(orig_lines, op.i1, op.i2))
        mod_text == Join(<<"\n">>, Slice(mod_lines, op.j1, op.j2))
    IN IF op.tag = "replace"
       THEN find_word_changes(orig_text, mod_text)
       ELSE IF op.tag = "delete"
       THEN IF Strip(orig_text) # <<>> THEN <<Change(Strip(orig_text), <<>>)>> ELSE <<>>
       ELSE IF op.tag = "insert"
       THEN IF Strip(mod_text) # <<>> THEN <<Change(<<>>, Strip(mod_text))>> ELSE <<>>
       ELSE <<>>

find_text_changes(original, modified) ==
    Bind(splitlines(original), LAMBDA orig_lines :
    Bind(splitlines(modified), LAMBDA mod_lines :
    Bind(get_opcodes(orig_lines, mod_lines), LAMBDA ops :
        Concat([k \in 1..Len(ops) |-> TextChangesOf(ops[k], orig_lines, mod_lines)]))))

-----------------------------------------------------------------------------
(* generate_redlines from the markdown texts on *)

MaxMd == 3

MdChars == {"a", " ", "\n"}

FeeOriginal == <<"f", "e", "e", " ", "5", "0", "0", "\n", "d", "u", "e", " ", "n", "o", "w">>
FeeModified == <<"f", "e", "e", " ", "7", "5", "0", "\n", "\n", "d", "u", "e", " ", "n", "o", "w">>
FeeShort == <<"f", "e", "e", "\n", " ", "\n", "n", "o", "w">>

\* pairs with several words on several lines
ExamplePairs ==
    {<<FeeOriginal, FeeModified>>, <<FeeModified, FeeOriginal>>,
     <<FeeOriginal, FeeOriginal>>, <<FeeOriginal, FeeShort>>,
     <<FeeShort, FeeOriginal>>, <<FeeShort, FeeModified>>}

MdPairs == (TextsOver(MdChars, MaxMd) \X TextsOver(MdChars, MaxMd)) \cup ExamplePairs

\* the document the original markdown was converted from: one body paragraph
\* of one run for each line
DocOf(text) ==
    LET lines == splitlines(text) IN
    [layout |-> [body |-> [k \in 1..Len(lines) |-> k], tables |-> <<>>,
                 sections |-> <<>>],
     paras |-> [k \in 1..Len(lines) |-> <<PlainRun(lines[k])>>]]

\* lines 429-436: the two markdown files are read and compared
FindChanges ==
    /\ pc = "read"
    /\ changes' = find_text_changes(original_md, modified_md)
    /\ pc' = "start"
    /\ UNCHANGED <<layout, paras, idx, revision_id, changes_applied, outcomes,
                   created, last_match, output, t_pc, t_reg, t_ids,
                   original_md, modified_md>>

InitDiff ==
    /\ \E pair \in MdPairs :
        /\ original_md = pair[1]
        /\ modified_md = pair[2]
        /\ layout = DocOf(pair[1]).layout
        /\ paras = DocOf(pair[1]).paras
    /\ changes = <<>>
    /\ idx = 1
    /\ pc = "read"
    /\ revision_id = 0
    /\ changes_applied = 0
    /\ outcomes = <<>>
    /\ created = <<>>
    /\ last_match = NoMatch
    /\ output = "none"
    /\ t_pc = <<>>
    /\ t_reg = <<>>
    /\ t_ids = <<>>

NextDiff ==
    \/ FindChanges
    \/ NoChanges
    \/ OpenDocument
    \/ ChangeApplied
    \/ ChangeNotFound
    \/ ChangeSkipped
    \/ Save

SpecDiff == InitDiff /\ [][NextDiff]_vars

-----------------------------------------------------------------------------
(* C11 *)

\* the comparison has been made
Compared == pc # "read"

\* C11: for every text A, diff(A, A) is the empty Change sequence: the
\* line-level alignment of A with itself consists of equal ranges only, so no
\* word-level alignment is started, and a word-level alignment of A with
\* itself emits no Change either.
C11_IdenticalTextsGiveNoChange ==
    (Compared /\ original_md = modified_md)
        => /\ changes = <<>>
           /\ find_text_changes(original_md, original_md) = <<>>
           /\ \A op \in Range(get_opcodes(splitlines(original_md),
                                          splitlines(modified_md))) :
                 op.tag = "equal"
           /\ find_word_changes(original_md, modified_md) = <<>>
           /\ \A op \in Range(get_opcodes(Split(original_md), Split(modified_md))) :
                 op.tag = "equal"

\* a text of two lines and four words was compared with itself
C11_Witness ==
    /\ Compared
    /\ original_md = FeeOriginal
    /\ modified_md = FeeOriginal
    /\ changes = <<>>

-----------------------------------------------------------------------------
(* C12 *)

OldSides(chs) == [k \in 1..Len(chs) |-> chs[k].old]
NewSides(chs) == [k \in 1..Len(chs) |-> chs[k].new]

\* the words of the sides, in order
WordsOf(sides) == Concat([k \in 1..Len(sides) |-> Split(sides[k])])

\* C12 as stated: the old sides of the Changes of diff(A, B), put together in
\* order, equal A after whitespace normalization at the word level, and the
\* new sides equal B after the same normalization.
C12_SidesRebuildTheTexts ==
    Compared
        => /\ normalize_text(Join(<<" ">>, OldSides(changes))) = normalize_text(original_md)
           /\ normalize_text(Join(<<" ">>, NewSides(changes))) = normalize_text(modified_md)

RECURSIVE Select(_, _, _)
\* the elements of words at the positions in keep, from position k on
Select(words, keep, k) ==
    IF k > Len(words) THEN <<>>
    ELSE (IF k \in keep THEN <<words[k]>> ELSE <<>>) \o Select(words, keep, k + 1)

\* old_words and new_words are taken, in order, out of the words of A and of
\* B, and the words left in A are the words left in B
ChangedPartsOf(a_words, b_words, old_words, new_words) ==
    \E P \in SUBSET (1..Len(a_words)) :
        /\ Select(a_words, P, 1) = old_words
        /\ \E Q \in SUBSET (1..Len(b_words)) :
              /\ Select(b_words, Q, 1) = new_words
              /\ Select(a_words, (1..Len(a_words)) \ P, 1)
                    = Select(b_words, (1..Len(b_words)) \ Q, 1)

\* C12 (amended): the Changes of diff(A, B) hold the changed parts only.  The
\* words of the old sides, in order, are words taken in order out of A, the
\* words of the new sides are words taken in order out of B, and the words of
\* A outside the old sides are, in order, the words of B outside the new
\* sides; no side has whitespace at its ends and the two sides of a Change
\* differ.
C12_SidesAreTheChangedParts ==
    Compared
        => /\ ChangedPartsOf(Split(original_md), Split(modified_md),
                             WordsOf(OldSides(changes)), WordsOf(NewSides(changes)))
           /\ \A k \in 1..Len(changes) :
                 /\ Strip(changes[k].old) = changes[k].old
                 /\ Strip(changes[k].new) = changes[k].new
                 /\ changes[k].old # changes[k].new

\* "fee 500 / due now" against "fee 750 / / due now": the only Change is
\* ("500", "750"), the words fee, due and now are in no Change
C12_Witness ==
    /\ Compared
    /\ original_md = FeeOriginal
    /\ modified_md = FeeModified
    /\ changes = <<Change(<<"5", "0", "0">>, <<"7", "5", "0">>)>>

-----------------------------------------------------------------------------
(* C13 *)

\* the run has not touched the document: the paragraphs are those of the
\* original, no id has been consumed and no markup node exists
DocumentUntouched ==
    /\ paras = DocOf(original_md).paras
    /\ revision_id = 0
    /\ created = <<>>
    /\ MarkupPlaces = {}
    /\ outcomes = <<>>
    /\ changes_applied = 0

\* C13: when the computed Change list is empty the run ends in the "no
\* changes" outcome: the document is never opened (the loop is never
\* entered), no paragraph is changed, no revision id is consumed, no markup
\* node is created, and what is written is a plain copy of the original;
\* a copy is written in no other case.
C13_EmptyChangeListCopiesOriginal ==
    /\ []( (Compared /\ changes = <<>>)
             => /\ pc \in {"start", "done"}
                /\ DocumentUntouched
                /\ output = (IF pc = "done" THEN "copy" ELSE "none") )
    /\ []( output = "copy" => (changes = <<>> /\ pc = "done") )
    /\ [][ (pc = "start" /\ changes = <<>>)
            => /\ pc' = "done"
               /\ output' = "copy"
               /\ paras' = paras
               /\ revision_id' = revision_id
               /\ created' = created ]_vars

\* two texts that differ in whitespace only gave no Change, and the original
\* was copied
C13_Witness ==
    /\ pc = "done"
    /\ output = "copy"
    /\ changes = <<>>
    /\ original_md # modified_md
    /\ paras # <<>>
    /\ DocumentUntouched

-----------------------------------------------------------------------------
(* C14 *)

RECURSIVE RejectAllText(_)
\* what the paragraph reads after every tracked change has been rejected:
\* the texts of the plain runs and of the Deletion nodes, in order
RejectAllText(children) ==
    IF children = <<>> THEN <<>>
    ELSE (IF Head(children).kind \in {"r", "del"} THEN Head(children).text ELSE <<>>)
         \o RejectAllText(Tail(children))

\* the paragraphs of the document as they were when the run started
OriginalParas == (CHOOSE d \in Docs : d.layout = layout).paras

\* C14: for every paragraph and after any sequence of changes applied to it
\* in one run, the texts of the plain runs and of the Deletion nodes, read in
\* order and ignoring Insertion nodes, give exactly the flattened text the
\* paragraph had before the run started, also after a later change whose
\* match spans plain runs on both sides of markup left by an earlier change.
C14_RejectAllRestoresOriginalText ==
    \A pid \in DOMAIN paras :
        RejectAllText(paras[pid]) = FlatText(OriginalParas[pid])

\* the part of C14 the code keeps: a change whose match has no other child
\* between its affected runs leaves the reject-all text of every paragraph
\* as it was
C14_RejectAllTextKeptWhenContiguous ==
    [][ (ProcessesChange
         /\ (last_match'.pid # 0 => ~ChildInsideSpan(last_match'.span)))
        => \A pid \in DOMAIN paras :
              RejectAllText(paras'[pid]) = RejectAllText(paras[pid]) ]_vars

-----------------------------------------------------------------------------
(* C15 *)

RECURSIVE MarkupOf(_)
\* the Deletion and Insertion nodes of a paragraph, in order
MarkupOf(children) ==
    IF children = <<>> THEN <<>>
    ELSE (IF Head(children).kind \in {"del", "ins"} THEN <<Head(children)>> ELSE <<>>)
         \o MarkupOf(Tail(children))

RECURSIVE IssuedBefore(_, _)
\* the nodes among them whose id had been issued when the counter stood at rid
IssuedBefore(nodes, rid) ==
    IF nodes = <<>> THEN <<>>
    ELSE (IF Head(nodes).id <= rid THEN <<Head(nodes)>> ELSE <<>>)
         \o IssuedBefore(Tail(nodes), rid)

\* C15: markup placed by an earlier change is permanent within a run.  Every
\* Deletion or Insertion node created by the run is in the document, and a
\* later change leaves every node that is already in a paragraph in that
\* paragraph, with the same text, id, author and timestamp and in the same
\* order among the earlier nodes; what it adds are nodes with fresh ids.  The
\* children in which a change is located are plain runs only, never a
\* Deletion or Insertion node.
C15_EarlierMarkupIsPermanent ==
    /\ [](\A k \in 1..Len(created) :
             \E pl \in MarkupPlaces : NodeAt(pl) = created[k])
    /\ [][ /\ \A pid \in DOMAIN paras :
                /\ IssuedBefore(MarkupOf(paras'[pid]), revision_id)
                      = MarkupOf(paras[pid])
                /\ Len(MarkupOf(paras'[pid])) - Len(MarkupOf(paras[pid]))
                      = (IF pid \in Rewritten THEN Len(created') - Len(created) ELSE 0)
           /\ AppliesChange
                => \A k \in 1..Len(last_match'.span) :
                      LocatedPara[last_match'.span[k].run + 1].kind = "r" ]_vars

\* the second change was located in the two runs around the Deletion left by
\* the first; that Deletion, with id 1, is still in the paragraph
C15_Witness ==
    /\ layout = DocBody.layout
    /\ outcomes = <<"Applied", "Applied">>
    /\ Len(last_match.span) = 2
    /\ Len(MarkupOf(paras[1])) >= 2
    /\ \E k \in 1..Len(paras[1]) :
          /\ paras[1][k] = created[1]
          /\ created[1].id = 1

====
